---------------------------- MODULE Spec2Model ----------------------------
(***************************************************************************)
(* The heating-control bot: one HeatingState behind a tokio Mutex, shared  *)
(* by the chat handlers of src/src/main.rs and the HTTP handlers of        *)
(* src/src/server.rs.                                                      *)
(*                                                                         *)
(* Time is in whole seconds.  An f64 is a pair <<kind, n>>: <<"fin", n>>   *)
(* is the finite value n / Scale, <<"inf", 1>> and <<"inf", -1>> are the   *)
(* infinities and <<"nan", 0>> is NaN.  A text is a tuple of one-character *)
(* strings.                                                                *)
(***************************************************************************)
EXTENDS Integers, Sequences, FiniteSets, TLC

(* ------------------------------ bounds --------------------------------- *)

\* The clock readings of the model are 0..MaxOffset and StaleSecs + MaxOffset:
\* readings StaleSecs - 1, StaleSecs and StaleSecs + 1 apart occur.
MaxOffset == 1

\* Handlers in flight at once, over both front ends.
MaxActive == 2

\* AUTHORIZED_USER_IDS: the allow-list holds the conversations 1..NumAuthorized.
NumAuthorized == 2

\* Conversations outside the allow-list.
NumUnauthorized == 1

\* HTTP requests in flight at once.
MaxHttp == 1

(* ------------------------- program constants --------------------------- *)

\* Duration::from_secs(15 * 60)
StaleSecs == 900

\* Finite f64 values are kept to one decimal: <<"fin", n>> is n / Scale.
Scale == 10

AuthorizedUsers == 1..NumAuthorized

Chats == 1..(NumAuthorized + NumUnauthorized)

HttpTasks == (NumAuthorized + NumUnauthorized + 1)..(NumAuthorized + NumUnauthorized + MaxHttp)

NoTask == 0

ClockValues == (0..MaxOffset) \cup {StaleSecs + MaxOffset}

(* ------------------------------- f64 ----------------------------------- *)

Fin(n) == <<"fin", n>>

NaN == <<"nan", 0>>

PosInf == <<"inf", 1>>

NegInf == <<"inf", -1>>

IsFinite(x) == x[1] = "fin"

\* IEEE 754 `<`: false whenever an operand is NaN.
FLt(a, b) ==
    CASE a[1] = "nan" \/ b[1] = "nan" -> FALSE
      [] a[1] = "inf" /\ b[1] = "inf" -> a[2] < b[2]
      [] a[1] = "inf" -> a[2] < 0
      [] b[1] = "inf" -> b[2] > 0
      [] OTHER -> a[2] < b[2]

(* ------------------------------ texts ---------------------------------- *)

UpperCase == <<"A", "B", "C", "D", "E", "F", "G", "H", "I", "J", "K", "L", "M",
               "N", "O", "P", "Q", "R", "S", "T", "U", "V", "W", "X", "Y", "Z">>

LowerCase == <<"a", "b", "c", "d", "e", "f", "g", "h", "i", "j", "k", "l", "m",
               "n", "o", "p", "q", "r", "s", "t", "u", "v", "w", "x", "y", "z">>

DigitChars == <<"0", "1", "2", "3", "4", "5", "6", "7", "8", "9">>

ToLowerChar(ch) ==
    IF \E i \in 1..Len(UpperCase) : UpperCase[i] = ch
    THEN LowerCase[CHOOSE i \in 1..Len(UpperCase) : UpperCase[i] = ch]
    ELSE ch

ToLower(s) == [i \in 1..Len(s) |-> ToLowerChar(s[i])]

IsDigit(ch) == \E i \in 1..Len(DigitChars) : DigitChars[i] = ch

DigitVal(ch) == (CHOOSE i \in 1..Len(DigitChars) : DigitChars[i] = ch) - 1

AllDigits(s) == \A i \in 1..Len(s) : IsDigit(s[i])

RECURSIVE DecimalValue(_)
DecimalValue(s) ==
    IF s = <<>> THEN 0
    ELSE 10 * DecimalValue(SubSeq(s, 1, Len(s) - 1)) + DigitVal(s[Len(s)])

\* The first `Scale` digit of a fraction, as a count of 1 / Scale.
FractionValue(s) == IF s = <<>> THEN 0 ELSE DigitVal(s[1])

\* str::parse::<f64>: an optional sign, then "inf", "infinity" or "nan" in
\* any letter case, or decimal digits with at most one point and at least
\* one digit.  No surrounding white space is accepted.  (Exponents are not
\* modelled; no input text of the model has one.)
ParseF64(s) ==
    LET signed == s # <<>> /\ s[1] \in {"+", "-"}
        sign   == IF signed /\ s[1] = "-" THEN -1 ELSE 1
        body   == IF signed THEN Tail(s) ELSE s
        word   == ToLower(body)
        dots   == {i \in 1..Len(body) : body[i] = "."}
        dot    == IF dots = {} THEN Len(body) + 1 ELSE CHOOSE i \in dots : TRUE
        whole  == SubSeq(body, 1, dot - 1)
        frac   == SubSeq(body, dot + 1, Len(body))
    IN  CASE word \in {<<"i", "n", "f">>, <<"i", "n", "f", "i", "n", "i", "t", "y">>}
               -> <<"Ok", <<"inf", sign>>>>
          [] word = <<"n", "a", "n">> -> <<"Ok", NaN>>
          [] /\ Cardinality(dots) <= 1
             /\ AllDigits(whole) /\ AllDigits(frac)
             /\ Len(whole) + Len(frac) >= 1
               -> <<"Ok", Fin(sign * (Scale * DecimalValue(whole) + FractionValue(frac)))>>
          [] OTHER -> <<"Err", Fin(0)>>


(* ------------------------- HeatingState -------------------------------- *)

\* SystemTime::duration_since: Err when `earlier` is later than `self`.
DurationSince(later, earlier) ==
    IF later >= earlier THEN <<"Ok", later - earlier>>
    ELSE <<"Err", earlier - later>>

\* heating_is_on with the window compared by >= instead of >.
HeatingIsOnEarly(self, clock) ==
    LET d == DurationSince(clock, self.current_temp_reported_at)
    IN  IF d[1] = "Err" THEN "panic"
        ELSE IF d[2] >= StaleSecs THEN "false"
        ELSE IF self.heating_switch_is_on /\ FLt(self.current_temp, self.target_temp)
             THEN "true"
             ELSE "false"

\* HeatingState::heating_is_on with SystemTime::now() = clock.  "panic" is
\* the unwrap() of an Err.
HeatingIsOn(self, clock) ==
    LET d == DurationSince(clock, self.current_temp_reported_at)
    IN  IF d[1] = "Err" THEN "panic"
        ELSE IF d[2] > StaleSecs THEN "false"
        ELSE IF self.heating_switch_is_on /\ FLt(self.current_temp, self.target_temp)
             THEN "true"
             ELSE "false"

\* The state built in main().
InitialHeatingState(clock) ==
    [target_temp |-> Fin(21 * Scale),
     current_temp |-> Fin(0),
     current_temp_reported_at |-> clock,
     heating_switch_is_on |-> FALSE]

(* ------------------------------ messages ------------------------------- *)

CommandNames ==
    [Help |-> <<"h", "e", "l", "p">>,
     Status |-> <<"s", "t", "a", "t", "u", "s">>,
     SetTemp |-> <<"s", "e", "t", "t", "e", "m", "p">>,
     On |-> <<"o", "n">>,
     Off |-> <<"o", "f", "f">>,
     Cancel |-> <<"c", "a", "n", "c", "e", "l">>]

Commands == DOMAIN CommandNames

\* BotCommands::parse with rename_rule = "lowercase": "/" and the name.
ParseCommand(text) ==
    IF text # <<>> /\ text[1] = "/" /\ \E k \in Commands : CommandNames[k] = Tail(text)
    THEN CHOOSE k \in Commands : CommandNames[k] = Tail(text)
    ELSE "None"

\* What the operator types besides commands.
OperatorTexts ==
    {<<"a", "b", "c">>, <<"1", "9", ".", "5">>, <<"N", "a", "N">>}

\* The {value} segments of POST /temp/{value}.
SensorTexts ==
    {<<"2", "2", ".", "5">>, <<"-", "i", "n", "f">>, <<"x">>}

NoText == <<>>

\* msg.text() is None for a message of kind "other" (a photo, a sticker).
Messages ==
    {[kind |-> "text", text |-> <<"/">> \o CommandNames[k]] : k \in Commands}
    \cup {[kind |-> "text", text |-> t] : t \in OperatorTexts}
    \cup {[kind |-> "other", text |-> NoText]}

\* filter_command applied to each text of Messages.
CommandOfText ==
    [t \in {m.text : m \in Messages} |-> ParseCommand(t)]

\* parse::<f64>() applied to each text of Messages and of SensorTexts.
ParsedText ==
    [t \in {m.text : m \in Messages} \cup SensorTexts |-> ParseF64(t)]

\* The command a message carries, or "None".
Cmd(m) == IF m.kind = "text" THEN CommandOfText[m.text] ELSE "None"

\* The message is a text that parse::<f64>() accepts.
ParsesOk(m) == m.kind = "text" /\ ParsedText[m.text][1] = "Ok"


(* ------------------------------- state --------------------------------- *)

VARIABLES
    now,          \* SystemTime::now(), a wall clock
    hs,           \* the HeatingState inside the Mutex
    lockHolder,   \* the task holding the MutexGuard, or NoTask
    lockWaiters,  \* the tasks suspended in lock().await, first come first
    storage,      \* InMemStorage<State>: per conversation, "None" when absent
    bot,          \* per conversation, the task handling its current message
    http          \* the tasks handling HTTP requests

vars == <<now, hs, lockHolder, lockWaiters, storage, bot, http>>

\* The locals of status() that live across its steps.
NoLocals ==
    [switch_on_off |-> "none", heating_on_off |-> "none", temp_report_delay |-> 0,
     target_temp |-> Fin(0), current_temp |-> Fin(0)]

\* No message is being handled.
NoMessage == [kind |-> "none", text |-> NoText]

\* msg is the message being handled and st the dialogue state it was
\* dispatched in; out is "ok", or the error the handler returned
\* ("RequestError" of send_message, "DialogueNotFound" of dialogue.exit(),
\* "SystemTimeError" of duration_since), or "panic", or "filtered".
IdleBot ==
    [pc |-> "idle", handler |-> "none", msg |-> NoMessage, st |-> "none",
     val |-> Fin(0), loc |-> NoLocals, reply |-> "none", out |-> "none"]

IdleHttp == [pc |-> "idle", val |-> Fin(0), res |-> "none"]

Init ==
    /\ now = 0
    /\ hs = InitialHeatingState(0)
    /\ lockHolder = NoTask
    /\ lockWaiters = <<>>
    /\ storage = [c \in Chats |-> "None"]
    /\ bot = [c \in Chats |-> IdleBot]
    /\ http = [t \in HttpTasks |-> IdleHttp]

(* ------------------------------- clock --------------------------------- *)

\* Time passes.
Tick ==
    /\ \E t \in ClockValues : t > now /\ now' = t
    /\ UNCHANGED <<hs, lockHolder, lockWaiters, storage, bot, http>>

\* The wall clock is set back (SystemTime is not monotonic).
ClockSetBack ==
    /\ \E t \in ClockValues : t < now /\ now' = t
    /\ UNCHANGED <<hs, lockHolder, lockWaiters, storage, bot, http>>

(* ------------------------------- Mutex --------------------------------- *)

\* Mutex::lock() without mutual exclusion: the guard is handed out at once.
CanAcquireUnguarded(t) == lockWaiters # <<>> /\ Head(lockWaiters) = t

\* Mutex::lock().await completes for the longest-waiting task once the
\* Mutex is free.
CanAcquire(t) == lockHolder = NoTask /\ lockWaiters # <<>> /\ Head(lockWaiters) = t

\* The handlers in flight.
Active ==
    {c \in Chats : bot[c].pc \notin {"idle", "done"}}
    \cup {t \in HttpTasks : http[t].pc \notin {"idle", "done"}}

\* get_or_default() of the dialogue of conversation c.
DialogueState(c) == IF storage[c] = "None" THEN "Initial" ELSE storage[c]

(* ---------------------------- HTTP front end --------------------------- *)

\* server.rs heating_is_on, lines 29-40, with SystemTime::now() = clock.
\* (`heating_state.heating_is_on` of line 37 is read as the switch field.)
ServerHeatingIsOnLate(state, clock) ==
    LET d == DurationSince(clock, state.current_temp_reported_at)
    IN  IF d[1] = "Err" THEN "panic"
        ELSE IF d[2] > StaleSecs + 1 THEN "false"
        ELSE IF state.heating_switch_is_on /\ FLt(state.current_temp, state.target_temp)
             THEN "true"
             ELSE "false"

\* Lines 29-40 without the comparison of the temperatures.
ServerHeatingIsOnSwitchOnly(state, clock) ==
    LET d == DurationSince(clock, state.current_temp_reported_at)
    IN  IF d[1] = "Err" THEN "panic"
        ELSE IF d[2] > StaleSecs THEN "false"
        ELSE IF state.heating_switch_is_on THEN "true" ELSE "false"

ServerHeatingIsOn(state, clock) ==
    LET d == DurationSince(clock, state.current_temp_reported_at)
    IN  IF d[1] = "Err" THEN "panic"
        ELSE IF d[2] > StaleSecs THEN "false"
        ELSE IF state.heating_switch_is_on /\ FLt(state.current_temp, state.target_temp)
             THEN "true"
             ELSE "false"

\* GET /heating_is_on arrives: the handler starts and awaits the lock.
get_request(t) ==
    /\ http[t].pc = "idle"
    /\ Cardinality(Active) < MaxActive
    /\ http' = [http EXCEPT ![t] = [IdleHttp EXCEPT !.pc = "get_lock"]]
    /\ lockWaiters' = Append(lockWaiters, t)
    /\ UNCHANGED <<now, hs, lockHolder, storage, bot>>

get_lock(t) ==
    /\ http[t].pc = "get_lock"
    /\ CanAcquire(t)
    /\ lockHolder' = t
    /\ lockWaiters' = Tail(lockWaiters)
    /\ http' = [http EXCEPT ![t].pc = "get_eval"]
    /\ UNCHANGED <<now, hs, storage, bot>>

\* Lines 29-40: the reply is decided and returned, and the guard is dropped
\* (by the return, or by the unwinding of a panic).
get_eval(t) ==
    /\ http[t].pc = "get_eval"
    /\ http' = [http EXCEPT ![t].pc = "done", ![t].res = ServerHeatingIsOn(hs, now)]
    /\ lockHolder' = NoTask
    /\ UNCHANGED <<now, hs, lockWaiters, storage, bot>>

\* POST /temp/{value} arrives: Path<f64> parses the segment; a segment that
\* is no f64 is rejected before the handler runs.
post_request(t) ==
    /\ http[t].pc = "idle"
    /\ Cardinality(Active) < MaxActive
    /\ \E text \in SensorTexts :
          LET p == ParsedText[text]
          IN  IF p[1] = "Ok"
              THEN /\ http' = [http EXCEPT ![t] = [IdleHttp EXCEPT !.pc = "post_lock", !.val = p[2]]]
                   /\ lockWaiters' = Append(lockWaiters, t)
              ELSE /\ http' = [http EXCEPT ![t] = [IdleHttp EXCEPT !.pc = "done", !.res = "rejected"]]
                   /\ UNCHANGED lockWaiters
    /\ UNCHANGED <<now, hs, lockHolder, storage, bot>>

post_lock(t) ==
    /\ http[t].pc = "post_lock"
    /\ CanAcquire(t)
    /\ lockHolder' = t
    /\ lockWaiters' = Tail(lockWaiters)
    /\ http' = [http EXCEPT ![t].pc = "post_temp"]
    /\ UNCHANGED <<now, hs, storage, bot>>

\* Line 48.
post_temp(t) ==
    /\ http[t].pc = "post_temp"
    /\ hs' = [hs EXCEPT !.current_temp = http[t].val]
    /\ http' = [http EXCEPT ![t].pc = "post_stamp"]
    /\ UNCHANGED <<now, lockHolder, lockWaiters, storage, bot>>

\* Line 49 keeping the later of the old stamp and the clock reading.
post_stamp_later(t) ==
    /\ http[t].pc = "post_stamp"
    /\ hs' = [hs EXCEPT !.current_temp_reported_at =
                            IF now > hs.current_temp_reported_at
                            THEN now ELSE hs.current_temp_reported_at]
    /\ http' = [http EXCEPT ![t].pc = "done", ![t].res = "ok"]
    /\ lockHolder' = NoTask
    /\ UNCHANGED <<now, lockWaiters, storage, bot>>

\* Line 49, and the guard is dropped at the end of the function.
post_stamp(t) ==
    /\ http[t].pc = "post_stamp"
    /\ hs' = [hs EXCEPT !.current_temp_reported_at = now]
    /\ http' = [http EXCEPT ![t].pc = "done", ![t].res = "ok"]
    /\ lockHolder' = NoTask
    /\ UNCHANGED <<now, lockWaiters, storage, bot>>


(* ---------------------------- chat front end --------------------------- *)

\* schema() without the check_valid_user filter.
RouteUnfiltered(c, m) ==
    LET cmd == Cmd(m)
        st  == DialogueState(c)
    IN  CASE cmd = "Help" /\ st = "Initial" -> "help"
          [] cmd = "Status" /\ st = "Initial" -> "status"
          [] cmd = "SetTemp" /\ st = "Initial" -> "set_temp"
          [] cmd = "On" /\ st = "Initial" -> "set_heating_on"
          [] cmd = "Off" /\ st = "Initial" -> "set_heating_off"
          [] cmd = "Cancel" -> "cancel"
          [] st = "ReceiveTemp" -> "receive_temp"
          [] OTHER -> "invalid_state"

\* schema() with the commands of State::Initial matched in every state.
RouteAnyState(c, m) ==
    LET cmd == Cmd(m)
    IN  CASE c \notin AuthorizedUsers -> "check_valid_user"
          [] cmd = "Help" -> "help"
          [] cmd = "Status" -> "status"
          [] cmd = "SetTemp" -> "set_temp"
          [] cmd = "On" -> "set_heating_on"
          [] cmd = "Off" -> "set_heating_off"
          [] cmd = "Cancel" -> "cancel"
          [] DialogueState(c) = "ReceiveTemp" -> "receive_temp"
          [] OTHER -> "invalid_state"

\* The endpoint schema() selects for message m of conversation c, after
\* check_valid_user: the command branch (the commands of State::Initial,
\* then Cancel), then receive_temp in State::ReceiveTemp, then invalid_state.
Route(c, m) ==
    LET cmd == Cmd(m)
        st  == DialogueState(c)
    IN  CASE c \notin AuthorizedUsers -> "check_valid_user"
          [] cmd = "Help" /\ st = "Initial" -> "help"
          [] cmd = "Status" /\ st = "Initial" -> "status"
          [] cmd = "SetTemp" /\ st = "Initial" -> "set_temp"
          [] cmd = "On" /\ st = "Initial" -> "set_heating_on"
          [] cmd = "Off" /\ st = "Initial" -> "set_heating_off"
          [] cmd = "Cancel" -> "cancel"
          [] st = "ReceiveTemp" -> "receive_temp"
          [] OTHER -> "invalid_state"

\* Where a handler first suspends, and the value it carries there.
FirstStep(handler, m) ==
    CASE handler = "check_valid_user" -> [pc |-> "unauthorized_send", val |-> Fin(0)]
      [] handler = "help" -> [pc |-> "help_send", val |-> Fin(0)]
      [] handler = "status" -> [pc |-> "status_lock", val |-> Fin(0)]
      [] handler = "set_temp" -> [pc |-> "set_temp_send", val |-> Fin(0)]
      [] handler = "set_heating_on" -> [pc |-> "on_lock", val |-> Fin(0)]
      [] handler = "set_heating_off" -> [pc |-> "off_lock", val |-> Fin(0)]
      [] handler = "cancel" -> [pc |-> "cancel_send", val |-> Fin(0)]
      [] handler = "invalid_state" -> [pc |-> "invalid_send", val |-> Fin(0)]
      [] handler = "receive_temp" ->
            IF m.kind # "text" THEN [pc |-> "receive_none_send", val |-> Fin(0)]
            ELSE IF ~ParsesOk(m)
                 THEN [pc |-> "receive_invalid_send", val |-> Fin(0)]
                 ELSE [pc |-> "receive_lock", val |-> ParsedText[m.text][2]]

LockSteps == {"status_lock", "on_lock", "off_lock", "receive_lock"}

\* A message of conversation c is dispatched once the conversation's
\* previous message is handled.
message(c) ==
    /\ bot[c].pc = "idle"
    /\ Cardinality(Active) < MaxActive
    /\ \E m \in Messages :
          LET h == Route(c, m)
              f == FirstStep(h, m)
          IN  /\ bot' = [bot EXCEPT ![c] = [IdleBot EXCEPT !.pc = f.pc, !.handler = h, !.msg = m,
                                                          !.st = DialogueState(c), !.val = f.val]]
              /\ lockWaiters' = IF f.pc \in LockSteps THEN Append(lockWaiters, c) ELSE lockWaiters
    /\ UNCHANGED <<now, hs, lockHolder, storage, http>>

\* The handler of conversation c returns with `out`; `reply` is the last
\* text it passed to bot.send_message.
Returned(c, out, reply) ==
    [bot[c] EXCEPT !.pc = "done", !.out = out, !.reply = reply, !.loc = NoLocals]

\* bot.send_message(..).await? as the last step of a handler: the send
\* succeeds or fails, and `?` returns the failure.
SendAndReturn(c, pc, reply) ==
    /\ bot[c].pc = pc
    /\ \E sent \in BOOLEAN :
          bot' = [bot EXCEPT ![c] = Returned(c, IF sent THEN "ok" ELSE "RequestError", reply)]
    /\ UNCHANGED <<now, hs, lockHolder, lockWaiters, storage, http>>

\* bot.send_message(..).await? followed by more of the handler.
SendAndGo(c, pc, reply, next) ==
    /\ bot[c].pc = pc
    /\ \E sent \in BOOLEAN :
          bot' = [bot EXCEPT ![c] = IF sent THEN [bot[c] EXCEPT !.pc = next, !.reply = reply]
                                    ELSE Returned(c, "RequestError", reply)]
    /\ UNCHANGED <<now, hs, lockHolder, lockWaiters, storage, http>>

\* heating_state.lock().await completes.
Lock(c, pc, next) ==
    /\ bot[c].pc = pc
    /\ CanAcquire(c)
    /\ lockHolder' = c
    /\ lockWaiters' = Tail(lockWaiters)
    /\ bot' = [bot EXCEPT ![c].pc = next]
    /\ UNCHANGED <<now, hs, storage, http>>

\* check_valid_user for a conversation outside the allow-list: the reply
\* is attempted, its result ignored, and the update is filtered out.
check_valid_user(c) ==
    /\ bot[c].pc = "unauthorized_send"
    /\ bot' = [bot EXCEPT ![c] = Returned(c, "filtered", "Unauthorized user")]
    /\ UNCHANGED <<now, hs, lockHolder, lockWaiters, storage, http>>

help(c) == SendAndReturn(c, "help_send", "descriptions")

invalid_state(c) == SendAndReturn(c, "invalid_send", "Unable to handle the message")

cancel_send(c) == SendAndGo(c, "cancel_send", "Cancelling the dialogue", "cancel_exit")

\* dialogue.exit().await?: InMemStorage::remove_dialogue fails with
\* DialogueNotFound when the conversation has no stored state.
DialogueExit(c, pc) ==
    /\ bot[c].pc = pc
    /\ IF storage[c] = "None"
       THEN /\ bot' = [bot EXCEPT ![c] = Returned(c, "DialogueNotFound", bot[c].reply)]
            /\ UNCHANGED storage
       ELSE /\ bot' = [bot EXCEPT ![c] = Returned(c, "ok", bot[c].reply)]
            /\ storage' = [storage EXCEPT ![c] = "None"]
    /\ UNCHANGED <<now, hs, lockHolder, lockWaiters, http>>

cancel_exit(c) == DialogueExit(c, "cancel_exit")

set_temp_send(c) ==
    SendAndGo(c, "set_temp_send", "Enter the target temperature", "set_temp_update")

\* dialogue.update() on a dialogue state shared by all conversations.
set_temp_update_shared(c) ==
    /\ bot[c].pc = "set_temp_update"
    /\ storage' = [d \in Chats |-> "ReceiveTemp"]
    /\ bot' = [bot EXCEPT ![c] = Returned(c, "ok", bot[c].reply)]
    /\ UNCHANGED <<now, hs, lockHolder, lockWaiters, http>>

\* dialogue.update(State::ReceiveTemp).await?
set_temp_update(c) ==
    /\ bot[c].pc = "set_temp_update"
    /\ storage' = [storage EXCEPT ![c] = "ReceiveTemp"]
    /\ bot' = [bot EXCEPT ![c] = Returned(c, "ok", bot[c].reply)]
    /\ UNCHANGED <<now, hs, lockHolder, lockWaiters, http>>


\* Line 144.
status_lock(c) == Lock(c, "status_lock", "status_heating")

\* Lines 146-153; a panic of heating_is_on() unwinds and drops the guard.
status_heating(c) ==
    /\ bot[c].pc = "status_heating"
    /\ LET r == HeatingIsOn(hs, now)
       IN  IF r = "panic"
           THEN /\ bot' = [bot EXCEPT ![c] = Returned(c, "panic", bot[c].reply)]
                /\ lockHolder' = NoTask
           ELSE /\ bot' = [bot EXCEPT ![c].pc = "status_delay",
                                      ![c].loc.switch_on_off =
                                          IF hs.heating_switch_is_on THEN "ON" ELSE "OFF",
                                      ![c].loc.heating_on_off = IF r = "true" THEN "ON" ELSE "OFF"]
                /\ UNCHANGED lockHolder
    /\ UNCHANGED <<now, hs, lockWaiters, storage, http>>

\* Line 154, then the text of lines 157-167 is formatted and the send
\* begins; an Err of duration_since returns through `?` and drops the guard.
status_delay(c) ==
    /\ bot[c].pc = "status_delay"
    /\ LET d == DurationSince(now, hs.current_temp_reported_at)
       IN  IF d[1] = "Err"
           THEN /\ bot' = [bot EXCEPT ![c] = Returned(c, "SystemTimeError", bot[c].reply)]
                /\ lockHolder' = NoTask
           ELSE /\ bot' = [bot EXCEPT ![c].pc = "status_send",
                                      ![c].loc.temp_report_delay = d[2],
                                      ![c].loc.target_temp = hs.target_temp,
                                      ![c].loc.current_temp = hs.current_temp]
                /\ UNCHANGED lockHolder
    /\ UNCHANGED <<now, hs, lockWaiters, storage, http>>

\* Lines 155-171: the send completes, the handler returns and only then is
\* the guard `state` dropped.
status_send(c) ==
    /\ bot[c].pc = "status_send"
    /\ \E sent \in BOOLEAN :
          bot' = [bot EXCEPT ![c] = Returned(c, IF sent THEN "ok" ELSE "RequestError", "Current status")]
    /\ lockHolder' = NoTask
    /\ UNCHANGED <<now, hs, lockWaiters, storage, http>>

\* The re-prompt of lines 192-199 that also leaves the dialogue.
receive_temp_invalid_exiting(c) ==
    /\ bot[c].pc = "receive_invalid_send"
    /\ \E sent \in BOOLEAN :
          bot' = [bot EXCEPT ![c] = Returned(c, IF sent THEN "ok" ELSE "RequestError",
                                             "That's an invalid target temperature")]
    /\ storage' = [storage EXCEPT ![c] = "None"]
    /\ UNCHANGED <<now, hs, lockHolder, lockWaiters, http>>

\* Lines 192-200: the text is no f64.
receive_temp_invalid(c) ==
    SendAndReturn(c, "receive_invalid_send", "That's an invalid target temperature")

\* Lines 213-219: the message has no text.
receive_temp_none(c) ==
    SendAndReturn(c, "receive_none_send", "Please, send me the target temperature")

\* Line 203: lock().await ...
receive_temp_lock(c) == Lock(c, "receive_lock", "receive_write")

\* The write of target_temp that also stamps the report time.
receive_temp_write_stamping(c) ==
    /\ bot[c].pc = "receive_write"
    /\ hs' = [hs EXCEPT !.target_temp = bot[c].val, !.current_temp_reported_at = now]
    /\ lockHolder' = NoTask
    /\ bot' = [bot EXCEPT ![c].pc = "receive_send"]
    /\ UNCHANGED <<now, lockWaiters, storage, http>>

\* ... the write of target_temp, and the temporary guard is dropped at the
\* end of the statement.
receive_temp_write(c) ==
    /\ bot[c].pc = "receive_write"
    /\ hs' = [hs EXCEPT !.target_temp = bot[c].val]
    /\ lockHolder' = NoTask
    /\ bot' = [bot EXCEPT ![c].pc = "receive_send"]
    /\ UNCHANGED <<now, lockWaiters, storage, http>>

receive_temp_send(c) ==
    SendAndGo(c, "receive_send", "Target temperature set", "receive_exit")

receive_temp_exit(c) == DialogueExit(c, "receive_exit")

\* Lines 229 and 240: the write of the switch under a temporary guard.
SetSwitch(c, pc, on, next) ==
    /\ bot[c].pc = pc
    /\ hs' = [hs EXCEPT !.heating_switch_is_on = on]
    /\ lockHolder' = NoTask
    /\ bot' = [bot EXCEPT ![c].pc = next]
    /\ UNCHANGED <<now, lockWaiters, storage, http>>

set_heating_on_lock(c) == Lock(c, "on_lock", "on_write")

set_heating_on_write(c) == SetSwitch(c, "on_write", TRUE, "on_send")

set_heating_on_send(c) == SendAndReturn(c, "on_send", "Heating set to ON")

set_heating_off_lock(c) == Lock(c, "off_lock", "off_write")

set_heating_off_write(c) == SetSwitch(c, "off_write", FALSE, "off_send")

set_heating_off_send(c) == SendAndReturn(c, "off_send", "Heating set to OFF")

(* --------------------------- specification ----------------------------- *)

\* A handler that has returned is dropped by the runtime.
bot_end(c) ==
    /\ bot[c].pc = "done"
    /\ bot' = [bot EXCEPT ![c] = IdleBot]
    /\ UNCHANGED <<now, hs, lockHolder, lockWaiters, storage, http>>

http_end(t) ==
    /\ http[t].pc = "done"
    /\ http' = [http EXCEPT ![t] = IdleHttp]
    /\ UNCHANGED <<now, hs, lockHolder, lockWaiters, storage, bot>>

\* No returned handler is waiting to be dropped: the return of a handler
\* and its drop are not separated by other steps.
Quiet ==
    /\ \A c \in Chats : bot[c].pc # "done"
    /\ \A t \in HttpTasks : http[t].pc # "done"

Next ==
    \/ Quiet /\ Tick
    \/ Quiet /\ ClockSetBack
    \/ Quiet /\ \E t \in HttpTasks : get_request(t)
    \/ Quiet /\ \E t \in HttpTasks : get_lock(t)
    \/ Quiet /\ \E t \in HttpTasks : get_eval(t)
    \/ Quiet /\ \E t \in HttpTasks : post_request(t)
    \/ Quiet /\ \E t \in HttpTasks : post_lock(t)
    \/ Quiet /\ \E t \in HttpTasks : post_temp(t)
    \/ Quiet /\ \E t \in HttpTasks : post_stamp(t)
    \/ Quiet /\ \E c \in Chats : message(c)
    \/ Quiet /\ \E c \in Chats : check_valid_user(c)
    \/ Quiet /\ \E c \in Chats : help(c)
    \/ Quiet /\ \E c \in Chats : invalid_state(c)
    \/ Quiet /\ \E c \in Chats : cancel_send(c)
    \/ Quiet /\ \E c \in Chats : cancel_exit(c)
    \/ Quiet /\ \E c \in Chats : set_temp_send(c)
    \/ Quiet /\ \E c \in Chats : set_temp_update(c)
    \/ Quiet /\ \E c \in Chats : status_lock(c)
    \/ Quiet /\ \E c \in Chats : status_heating(c)
    \/ Quiet /\ \E c \in Chats : status_delay(c)
    \/ Quiet /\ \E c \in Chats : status_send(c)
    \/ Quiet /\ \E c \in Chats : receive_temp_invalid(c)
    \/ Quiet /\ \E c \in Chats : receive_temp_none(c)
    \/ Quiet /\ \E c \in Chats : receive_temp_lock(c)
    \/ Quiet /\ \E c \in Chats : receive_temp_write(c)
    \/ Quiet /\ \E c \in Chats : receive_temp_send(c)
    \/ Quiet /\ \E c \in Chats : receive_temp_exit(c)
    \/ Quiet /\ \E c \in Chats : set_heating_on_lock(c)
    \/ Quiet /\ \E c \in Chats : set_heating_on_write(c)
    \/ Quiet /\ \E c \in Chats : set_heating_on_send(c)
    \/ Quiet /\ \E c \in Chats : set_heating_off_lock(c)
    \/ Quiet /\ \E c \in Chats : set_heating_off_write(c)
    \/ Quiet /\ \E c \in Chats : set_heating_off_send(c)
    \/ \E c \in Chats : bot_end(c)
    \/ \E t \in HttpTasks : http_end(t)

Spec == Init /\ [][Next]_vars

\* What the tokio scheduler guarantees: a handler that can run its next
\* step runs it, and the Mutex hands the guard to the longest-waiting task.
\* The completion of bot.send_message is network I/O: nothing guarantees it.
Fairness ==
    /\ \A t \in HttpTasks :
          /\ WF_vars(get_lock(t)) /\ WF_vars(get_eval(t))
          /\ WF_vars(post_lock(t)) /\ WF_vars(post_temp(t)) /\ WF_vars(post_stamp(t))
          /\ WF_vars(http_end(t))
    /\ \A c \in Chats :
          /\ WF_vars(status_lock(c)) /\ WF_vars(status_heating(c)) /\ WF_vars(status_delay(c))
          /\ WF_vars(receive_temp_lock(c)) /\ WF_vars(receive_temp_write(c))
          /\ WF_vars(receive_temp_exit(c))
          /\ WF_vars(set_heating_on_lock(c)) /\ WF_vars(set_heating_on_write(c))
          /\ WF_vars(set_heating_off_lock(c)) /\ WF_vars(set_heating_off_write(c))
          /\ WF_vars(set_temp_update(c)) /\ WF_vars(cancel_exit(c))
          /\ WF_vars(bot_end(c))

FairSpec == Spec /\ Fairness

(* ----------------------------- properties ------------------------------ *)

\* The report is no older than the staleness window, by the wall clock.
Fresh(state, clock) ==
    /\ clock >= state.current_temp_reported_at
    /\ clock - state.current_temp_reported_at <= StaleSecs

\* The handler steps suspended in bot.send_message(..).await.
SendSteps ==
    {"unauthorized_send", "help_send", "invalid_send", "cancel_send", "set_temp_send",
     "status_send", "receive_invalid_send", "receive_none_send", "receive_send",
     "on_send", "off_send"}

\* The steps at which a handler holds the guard and reads the record.
BotReadSteps == {"status_heating", "status_delay", "status_send"}

\* C1: for every clock reading not earlier than the report time,
\* heating_is_on() returns true exactly when the switch is on, current_temp <
\* target_temp and the elapsed time is at most 900 s, and false otherwise.
\* (A reading earlier than the report time has no elapsed time: see C3.)
C1_DerivationRule ==
    \A clock \in ClockValues :
        clock >= hs.current_temp_reported_at =>
            HeatingIsOn(hs, clock) =
                IF /\ hs.heating_switch_is_on
                   /\ FLt(hs.current_temp, hs.target_temp)
                   /\ clock - hs.current_temp_reported_at <= StaleSecs
                THEN "true" ELSE "false"

\* status() has derived ON from a report exactly 900 s old.
C1_Witness ==
    \E c \in Chats :
        /\ bot[c].pc = "status_delay"
        /\ bot[c].loc.heating_on_off = "ON"
        /\ now - hs.current_temp_reported_at = StaleSecs

\* C2: a step of GET /heating_is_on that answers "true" and a step of
\* status() that derives ON are taken only while the report is at most 900 s
\* old, and no step of the operator path (the writes of the switch and of
\* target_temp) turns a stale report into a fresh one.
C2_NoStaleActive ==
    [][/\ \A t \in HttpTasks :
             http[t].pc = "get_eval" /\ http'[t].res = "true" => Fresh(hs, now)
       /\ \A c \in Chats :
             bot[c].pc = "status_heating" /\ bot'[c].loc.heating_on_off = "ON"
                 => Fresh(hs, now)
       /\ \A c \in Chats :
             bot[c].pc \in {"receive_write", "on_write", "off_write"} /\ bot'[c] # bot[c]
                 => (Fresh(hs', now') => Fresh(hs, now))]_vars

\* GET /heating_is_on has answered "false" on staleness alone: the switch is
\* on and current_temp < target_temp, but the report is over 900 s old.
C2_Witness ==
    \E t \in HttpTasks :
        /\ http[t].pc = "done"
        /\ http[t].res = "false"
        /\ hs.heating_switch_is_on
        /\ FLt(hs.current_temp, hs.target_temp)
        /\ now - hs.current_temp_reported_at > StaleSecs

\* C3: with the clock earlier than the report time, the derivation, GET
\* /heating_is_on and status() still produce a normal result: none panics.
C3_NegativeElapsedClamped ==
    /\ \A t \in HttpTasks : http[t].res # "panic"
    /\ \A c \in Chats : bot[c].out # "panic"

\* C4: a task that holds the lock is not suspended in a reply send.
C4_NoSendUnderLock ==
    \A c \in Chats : lockHolder = c => bot[c].pc \notin SendSteps

\* C5: a handler that reads the record holds the lock, no write of a report
\* is half done while it reads, and what status() has read so far is the
\* record as the last completed write left it.
C5_NoTornRead ==
    /\ \A t \in HttpTasks :
          http[t].pc = "get_eval" =>
              /\ lockHolder = t
              /\ \A w \in HttpTasks : http[w].pc \notin {"post_temp", "post_stamp"}
              /\ \A c \in Chats : bot[c].pc \notin {"receive_write", "on_write", "off_write"}
    /\ \A c \in Chats :
          bot[c].pc \in BotReadSteps =>
              /\ lockHolder = c
              /\ \A w \in HttpTasks : http[w].pc \notin {"post_temp", "post_stamp"}
              /\ \A d \in Chats : bot[d].pc \notin {"receive_write", "on_write", "off_write"}
              /\ bot[c].pc \in {"status_delay", "status_send"} =>
                    bot[c].loc.switch_on_off = (IF hs.heating_switch_is_on THEN "ON" ELSE "OFF")
              /\ bot[c].pc = "status_send" =>
                    /\ bot[c].loc.target_temp = hs.target_temp
                    /\ bot[c].loc.current_temp = hs.current_temp

\* status() is sending its reply, built from a record a sensor report has
\* written, while another handler waits for the lock.
C5_Witness ==
    \E c \in Chats :
        /\ bot[c].pc = "status_send"
        /\ lockWaiters # <<>>
        /\ hs.current_temp # Fin(0)
        /\ bot[c].loc.current_temp = hs.current_temp

\* C6: a handler that awaits the lock gets it, and an HTTP handler that
\* awaits it returns, however long the reply sends of the chat handlers take.
C6_LockEventuallyAcquired ==
    /\ \A t \in HttpTasks :
          (http[t].pc \in {"get_lock", "post_lock"}) ~> (http[t].pc = "done")
    /\ \A c \in Chats :
          (bot[c].pc \in LockSteps) ~> (bot[c].pc \notin LockSteps)

\* C7: current_temp_reported_at and current_temp change only in a step of
\* the POST /temp handler.
C7_OnlyReportStamps ==
    [][(\/ hs'.current_temp_reported_at # hs.current_temp_reported_at
        \/ hs'.current_temp # hs.current_temp)
          => \E t \in HttpTasks :
                /\ http[t].pc \in {"post_temp", "post_stamp"}
                /\ http'[t].pc # http[t].pc]_vars

\* The operator has set the switch and the target temperature, time has
\* passed, and the report time and current_temp are those of the start.
C7_Witness ==
    /\ hs.heating_switch_is_on
    /\ hs.target_temp # Fin(21 * Scale)
    /\ now > 0
    /\ hs.current_temp_reported_at = 0
    /\ hs.current_temp = Fin(0)

\* C8: current_temp_reported_at never decreases.
C8_TimestampMonotonic ==
    [][hs'.current_temp_reported_at >= hs.current_temp_reported_at]_vars

\* C9: target_temp and current_temp are finite in every reachable state.
C9_TemperaturesFinite ==
    IsFinite(hs.target_temp) /\ IsFinite(hs.current_temp)

\* C10: a message of a conversation outside the allow-list runs no handler
\* but check_valid_user, its steps change neither the record, the lock nor
\* any dialogue state, and it is answered "Unauthorized user".
C10_UnauthorizedInert ==
    /\ [](\A c \in Chats \ AuthorizedUsers :
             /\ bot[c].handler \in {"none", "check_valid_user"}
             /\ bot[c].pc \in {"idle", "unauthorized_send", "done"}
             /\ bot[c].pc = "done" =>
                   bot[c].reply = "Unauthorized user" /\ bot[c].out = "filtered")
    /\ [][\A c \in Chats \ AuthorizedUsers :
             bot'[c] # bot[c] =>
                 /\ UNCHANGED <<hs, storage, lockHolder, lockWaiters, http>>
                 /\ \A d \in Chats \ {c} : bot'[d] = bot[d]]_vars

\* An unauthorized message has been answered while an authorized
\* conversation is waiting for its temperature.
C10_Witness ==
    \E c \in Chats \ AuthorizedUsers :
        /\ bot[c].pc = "done"
        /\ bot[c].reply = "Unauthorized user"
        /\ \E d \in AuthorizedUsers : storage[d] = "ReceiveTemp"

\* C11: when the handler of a text that parses as a float, sent in
\* ReceiveTemp, has finished, the conversation is in Initial and the
\* confirmation has been sent: the handler never finishes with target_temp
\* written and the conversation still in ReceiveTemp.
C11_WriteAndExitTogether ==
    \A c \in AuthorizedUsers :
        (/\ bot[c].pc = "done"
         /\ bot[c].st = "ReceiveTemp"
         /\ ParsesOk(bot[c].msg))
            => /\ DialogueState(c) = "Initial"
               /\ bot[c].reply = "Target temperature set"

\* Conversation c is handling a message it was sent in ReceiveTemp that is
\* neither the Cancel command nor a text that parses as a float.
Rejected(c) ==
    /\ bot[c].st = "ReceiveTemp"
    /\ bot[c].msg.kind \in {"text", "other"}
    /\ Cmd(bot[c].msg) # "Cancel"
    /\ ~ParsesOk(bot[c].msg)

\* C12: a text that does not parse as a float, or a message without text,
\* sent in ReceiveTemp is answered with the re-prompt of its kind, the
\* conversation is still in ReceiveTemp when the handler has finished, and
\* no step of the handler changes the record or any dialogue state.
C12_InvalidInputReprompts ==
    /\ [](\A c \in AuthorizedUsers :
             bot[c].pc = "done" /\ Rejected(c) =>
                 /\ bot[c].handler = "receive_temp"
                 /\ bot[c].reply = IF bot[c].msg.kind = "text"
                                   THEN "That's an invalid target temperature"
                                   ELSE "Please, send me the target temperature"
                 /\ storage[c] = "ReceiveTemp")
    /\ [][\A c \in AuthorizedUsers :
             bot'[c] # bot[c] /\ Rejected(c) => UNCHANGED <<hs, storage>>]_vars

\* The text "abc" sent in ReceiveTemp has been answered and the
\* conversation is still in ReceiveTemp.
C12_Witness ==
    \E c \in AuthorizedUsers :
        /\ bot[c].pc = "done"
        /\ Rejected(c)
        /\ bot[c].msg.text = <<"a", "b", "c">>
        /\ storage[c] = "ReceiveTemp"

\* The commands of the State::Initial branch of schema().
InitialCommands == {"Help", "Status", "SetTemp", "On", "Off"}

\* C13: a command other than Cancel that is sent in ReceiveTemp is handled by
\* invalid_state, and answered "Unable to handle the message".
C13_CommandFallsToInvalidState ==
    \A c \in AuthorizedUsers :
        bot[c].st = "ReceiveTemp" /\ Cmd(bot[c].msg) \in InitialCommands =>
            /\ bot[c].handler = "invalid_state"
            /\ bot[c].pc = "done" => bot[c].reply = "Unable to handle the message"

\* C14: when the handler of a Cancel command has finished, the conversation
\* is in Initial and the acknowledgement has been sent, whatever the dialogue
\* state the command was sent in.
C14_CancelLeavesInitial ==
    \A c \in AuthorizedUsers :
        bot[c].pc = "done" /\ Cmd(bot[c].msg) = "Cancel" =>
            /\ bot[c].handler = "cancel"
            /\ bot[c].reply = "Cancelling the dialogue"
            /\ DialogueState(c) = "Initial"

\* The handlers with an effect after their reply send, and the step of that
\* effect.
EffectAfterSend ==
    [cancel |-> "cancel_exit", set_temp |-> "set_temp_update", receive_temp |-> "receive_exit"]

\* C15: no handler of an authorized conversation returns the error of a
\* failed reply send, and a handler that was sending a reply with an effect
\* still to come goes on to that effect.
C15_SendFailureSwallowed ==
    /\ [](\A c \in AuthorizedUsers : bot[c].out # "RequestError")
    /\ [][\A c \in AuthorizedUsers :
             bot[c].pc \in {"cancel_send", "set_temp_send", "receive_send"} /\ bot'[c] # bot[c]
                 => bot'[c].pc = EffectAfterSend[bot[c].handler]]_vars

\* C16: the reply GET /heating_is_on builds from the record is the value of
\* HeatingState::heating_is_on on that record, at every clock reading, and
\* the reply the handler returns is that value at the time of the request.
C16_ProbeIsDerivation ==
    /\ [](\A clock \in ClockValues : ServerHeatingIsOn(hs, clock) = HeatingIsOn(hs, clock))
    /\ [][\A t \in HttpTasks :
             http[t].pc = "get_eval" /\ http'[t] # http[t]
                 => http'[t].res = HeatingIsOn(hs, now)]_vars

\* GET /heating_is_on has answered "true" for a record with a reported
\* temperature, on which heating_is_on() is true as well.
C16_Witness ==
    \E t \in HttpTasks :
        /\ http[t].pc = "done"
        /\ http[t].res = "true"
        /\ HeatingIsOn(hs, now) = "true"
        /\ hs.current_temp # Fin(0)

\* C17: the write of a report leaves a record that already holds the
\* reported value as it is, and the call ends with current_temp equal to the
\* reported value and current_temp_reported_at equal to the clock reading of
\* the call, which is later than the previous stamp whenever the clock
\* reading is; the call changes no other field.
C17_ReportIdempotentAndStamps ==
    [][\A t \in HttpTasks :
          /\ http[t].pc = "post_temp" /\ http'[t] # http[t] =>
                /\ hs'.current_temp = http[t].val
                /\ hs.current_temp = http[t].val => hs' = hs
          /\ http[t].pc = "post_stamp" /\ http'[t] # http[t] =>
                /\ hs'.current_temp = http[t].val
                /\ hs'.current_temp_reported_at = now
                /\ now > hs.current_temp_reported_at =>
                      hs'.current_temp_reported_at > hs.current_temp_reported_at
                /\ hs'.target_temp = hs.target_temp
                /\ hs'.heating_switch_is_on = hs.heating_switch_is_on]_vars

\* A report of 22.5 was stamped at clock 1; at a later clock reading a
\* second report of 22.5 holds the lock and is about to write.
C17_Witness ==
    \E t \in HttpTasks :
        /\ http[t].pc = "post_temp"
        /\ http[t].val = Fin(225)
        /\ hs.current_temp = Fin(225)
        /\ hs.current_temp_reported_at = 1
        /\ now > 1

\* C18: every handler that has finished has sent a reply to its
\* conversation.
C18_EveryMessageAnswered ==
    \A c \in Chats : bot[c].pc = "done" => bot[c].reply # "none"

\* C19: a message sent in ReceiveTemp runs receive_temp or cancel and no
\* other endpoint, and a step of its handler that changes the record or a
\* dialogue state belongs to a text that parses as a float or to the Cancel
\* command: Help, Status, SetTemp, On and Off change nothing.
C19_OnlyValueOrCancelActs ==
    /\ [](\A c \in AuthorizedUsers :
             bot[c].st = "ReceiveTemp" => bot[c].handler \in {"receive_temp", "cancel"})
    /\ [][\A c \in AuthorizedUsers :
             (bot'[c] # bot[c] /\ bot[c].st = "ReceiveTemp" /\ <<hs, storage>>' # <<hs, storage>>)
                 => (Cmd(bot[c].msg) = "Cancel" \/ ParsesOk(bot[c].msg))]_vars

\* The command On sent in ReceiveTemp has been handled: the switch is off
\* and the conversation is still in ReceiveTemp.
C19_Witness ==
    \E c \in AuthorizedUsers :
        /\ bot[c].pc = "done"
        /\ bot[c].st = "ReceiveTemp"
        /\ Cmd(bot[c].msg) = "On"
        /\ ~hs.heating_switch_is_on
        /\ storage[c] = "ReceiveTemp"

\* C20: the dialogue state of a conversation changes only in a step of the
\* handler of that conversation's own message, and that step changes no
\* other conversation's dialogue state.
C20_DialogueIsolated ==
    [][\A d \in Chats :
          storage'[d] # storage[d] =>
              /\ bot[d].pc \in {"set_temp_update", "cancel_exit", "receive_exit"}
              /\ bot'[d] # bot[d]
              /\ \A c \in Chats \ {d} : storage'[c] = storage[c] /\ bot'[c] = bot[c]]_vars

\* One conversation has set its temperature and is back in Initial while
\* another is still in ReceiveTemp.
C20_Witness ==
    \E c, d \in AuthorizedUsers :
        /\ c # d
        /\ storage[c] = "ReceiveTemp"
        /\ bot[d].pc = "done"
        /\ bot[d].handler = "receive_temp"
        /\ bot[d].st = "ReceiveTemp"
        /\ storage[d] = "None"

=============================================================================
